---- MODULE Spec2Model ----
(***************************************************************************)
(* A model of gen_hexdump.cpp: the line classifier preprocess_hex_str, the *)
(* formatter gen_hexdump, the two input readers and main.                  *)
(*                                                                         *)
(* Text is a sequence of character codes (ASCII); the output file is the   *)
(* sequence of rows written to it, each row the text before its newline.   *)
(* C++ indices are 0-based: the character hex_str[i] of the code is s[i+1] *)
(* here.                                                                   *)
(***************************************************************************)
EXTENDS Integers, Sequences, FiniteSets

(***************************************************************************)
(* Bounds of the model.                                                    *)
(***************************************************************************)
\* lines the readers take from the input file before it ends
MaxLines == 3
\* byte groups in a generated input line
MaxBytes == 33
\* length of the exhaustively enumerated short inputs
MaxShortLen == 5
\* full rows already written when a single call is examined
MaxStartRows == 2

(***************************************************************************)
(* Characters and <cctype>.                                                *)
(***************************************************************************)
\* the value of an out-of-range read; no execution of the model reads it
Undef == -1

\* std::string::operator[]: s[size()] is the terminator '\0'
CharAt(s, i) ==
    IF i >= 0 /\ i < Len(s) THEN s[i + 1]
    ELSE IF i = Len(s) THEN 0
    ELSE Undef

\* isxdigit in the C locale: 0-9, A-F, a-f
IsXDigit(c) ==
    \/ c \in 48..57
    \/ c \in 65..70
    \/ c \in 97..102

\* isblank, wrongly without the tab
IsBlankSpaceOnly(c) == c = 32

\* isblank in the C locale: space and tab
IsBlank(c) == c = 32 \/ c = 9

\* tolower left out
ToLowerIdentity(c) == c

\* tolower in the C locale
ToLower(c) == IF c \in 65..90 THEN c + 32 ELSE c

\* the character of a hex digit value, lowercase (printf %x)
HexChar(d) == IF d < 10 THEN 48 + d ELSE 87 + d

RECURSIVE HexDigits(_)
\* printf %x of n without padding
HexDigits(n) ==
    IF n < 16 THEN <<HexChar(n)>>
    ELSE HexDigits(n \div 16) \o <<HexChar(n % 16)>>

RECURSIVE Zeros(_)
Zeros(k) == IF k <= 0 THEN <<>> ELSE <<48>> \o Zeros(k - 1)

(***************************************************************************)
(* uint32_t.  TLC's integers end at 2^31 - 1, so a uint32_t value v is     *)
(* kept as its two 16-bit halves: v = hi * 2^16 + lo.                      *)
(***************************************************************************)
Half == 65536

U32(hi, lo) == [hi |-> hi, lo |-> lo]

\* the uint32_t 0
Zero32 == U32(0, 0)

\* v + n on a uint32_t, for 0 <= n < 2^16: the carry out of the upper
\* half is lost
Add32(v, n) ==
    LET sum == v.lo + n IN
    U32((v.hi + sum \div Half) % Half, sum % Half)

\* printf %x of a uint32_t without padding
HexDigits32(v) ==
    IF v.hi = 0 THEN HexDigits(v.lo)
    ELSE LET l == HexDigits(v.lo)
         IN  HexDigits(v.hi) \o Zeros(4 - Len(l)) \o l

\* "%04x ": a narrower field
FormatPrefixWidth4(n) ==
    LET d == HexDigits32(n) IN Zeros(4 - Len(d)) \o d \o <<32>>

\* snprintf(buf, sizeof(buf), "%06x ", gLinePrefix): at least 6 digits,
\* zero-padded, and a space; 16 bytes of buf hold any 32-bit value
FormatPrefix(n) ==
    LET d == HexDigits32(n) IN Zeros(6 - Len(d)) \o d \o <<32>>

(***************************************************************************)
(* preprocess_hex_str                                                      *)
(***************************************************************************)
RECURSIVE SkipCR(_, _)
\* while (line[i] == '\r') i++;  stops at the terminator at the latest
SkipCR(line, i) ==
    IF CharAt(line, i) = 13 THEN SkipCR(line, i + 1) ELSE i

\* the k-th operand (k = 0..4) of the condition of line 79
CondOperand(line, i, k) ==
    IF k = 2 THEN IsBlank(CharAt(line, i + k))
    ELSE IsXDigit(CharAt(line, i + k))

\* & instead of &&: every operand is evaluated
OperandEvaluatedAlways(line, i, k) == TRUE

\* && evaluates an operand only when all operands before it are true
OperandEvaluated(line, i, k) ==
    \A j \in 0..(k - 1) : CondOperand(line, i, j)

\* the counter is left alone on a non-hex line
ResetPrefixKeep(prefix) == prefix

\* gLinePrefix = 0
ResetPrefix(prefix) == Zero32

\* ret: the value returned; gLinePrefix: the counter afterwards; reads: the
\* indices of line that were read
preprocess_hex_str(line, prefix) ==
    LET i == SkipCR(line, 0)
        ret == \A k \in 0..4 : CondOperand(line, i, k)
    IN  [ret |-> ret,
         gLinePrefix |-> IF ret THEN prefix ELSE ResetPrefix(prefix),
         reads |-> (0..i) \cup
                   {i + k : k \in {j \in 0..4 : OperandEvaluated(line, i, j)}}]

(***************************************************************************)
(* gen_hexdump                                                             *)
(***************************************************************************)
\* cidx - last_space > 2: the second digit of a byte was just appended
ByteComplete(cidx, last_space) == cidx - last_space > 2

\* the extra space one byte early
MidGapAt7(num_hex) == num_hex = 7

\* if (num_hex == 8): the extra space in the middle of the row
MidGap(num_hex) == num_hex = 8

\* if (num_hex != 16): the separator after a byte
NeedSeparator(num_hex) == num_hex # 16

\* if (num_hex == 16): the row is full
RowFull(num_hex) == num_hex = 16

\* the counter advanced by one more than the row holds
AdvancePrefixOffByOne(prefix, num_hex) == Add32(prefix, num_hex + 1)

\* gLinePrefix += num_hex on the uint32_t gLinePrefix: it wraps at 2^32
AdvancePrefix(prefix, num_hex) == Add32(prefix, num_hex)

\* a fresh row: line holds the offset, cidx = line.length(),
\* last_space = cidx - 1
NewRow(st, prefix) ==
    LET p == FormatPrefix(prefix) IN
    [st EXCEPT !.line = p, !.cidx = Len(p), !.last_space = Len(p) - 1,
               !.num_hex = 0, !.gLinePrefix = prefix]

\* one iteration of the for loop of lines 101-136 on the character ch
LoopBody(st, ch) ==
    LET c == ToLower(ch) IN
    IF ~IsXDigit(c) THEN st
    ELSE
      LET line1 == Append(st.line, c)
          cidx1 == st.cidx + 1
          done  == ByteComplete(cidx1, st.last_space)
          num1  == IF done THEN st.num_hex + 1 ELSE st.num_hex
          gap   == done /\ MidGap(num1)
          line2 == IF gap THEN Append(line1, 32) ELSE line1
          cidx2 == IF gap THEN cidx1 + 1 ELSE cidx1
          sep   == done /\ NeedSeparator(num1)
          line3 == IF sep THEN Append(line2, 32) ELSE line2
          last3 == IF sep THEN cidx2 ELSE st.last_space
          cidx3 == IF sep THEN cidx2 + 1 ELSE cidx2
      IN  IF RowFull(num1)
          THEN NewRow([st EXCEPT !.written =
                          Append(@, [text |-> line3, full |-> TRUE])],
                      AdvancePrefix(st.gLinePrefix, num1))
          ELSE [st EXCEPT !.line = line3, !.cidx = cidx3,
                          !.last_space = last3, !.num_hex = num1]

RECURSIVE Scan(_, _, _, _)
\* for (i = 0; i < hex_str.length(); ++i): the loop body on the characters
\* at the 1-based positions lo..hi in order, the first half before the
\* second
Scan(s, lo, hi, st) ==
    IF lo > hi THEN st
    ELSE IF lo = hi THEN LoopBody(st, s[lo])
    ELSE LET mid  == (lo + hi) \div 2
             half == Scan(s, lo, mid, st)
         IN  IF half.cidx >= 0 THEN Scan(s, mid + 1, hi, half) ELSE half

\* if (num_hex || (cidx - last_space > 1)): the last row holds something
LastRowPending(st) == st.num_hex # 0 \/ st.cidx - st.last_space > 1

\* gen_hexdump(hex_str, ofs) with the counter at prefix.  pre: the counter
\* when preprocess_hex_str has returned; written: the rows appended to ofs,
\* each with the write that made it (full: line 126, a row of 16 bytes;
\* otherwise line 138, the last row)
gen_hexdump(hex_str, prefix) ==
    LET pre == preprocess_hex_str(hex_str, prefix) IN
    IF ~pre.ret
    THEN [ret |-> FALSE, gLinePrefix |-> pre.gLinePrefix,
          pre |-> pre.gLinePrefix, reads |-> pre.reads, written |-> <<>>]
    ELSE
      LET st0 == NewRow([line |-> <<>>, cidx |-> 0, last_space |-> 0,
                         num_hex |-> 0, gLinePrefix |-> prefix,
                         written |-> <<>>], prefix)
          stN == Scan(hex_str, 1, Len(hex_str), st0)
      IN  [ret |-> TRUE, gLinePrefix |-> stN.gLinePrefix,
           pre |-> pre.gLinePrefix, reads |-> pre.reads,
           written |-> IF LastRowPending(stN)
                       THEN Append(stN.written,
                                   [text |-> stN.line, full |-> FALSE])
                       ELSE stN.written]

(***************************************************************************)
(* Inputs.                                                                 *)
(***************************************************************************)
\* the hex string of the file header (lines 6-8), as read_hex_str hands it
\* over: each line followed by '\n'
ExampleHexStr ==
    <<99,50,101,102,48,97,48,48,32,48,48,57,49,56,56,52,51,32,101,49,51,56,
    97,55,50,98,32,48,56,48,48,52,53,48,48,32,48,48,51,99,100,51,55,51,32,
    52,48,48,48,52,48,48,54,32,53,56,97,99,48,50,48,50,32,48,50,48,97,48,97,
    48,48,10,48,48,57,49,97,97,101,54,32,48,48,49,54,98,52,52,54,32,55,102,
    56,54,48,48,48,48,32,48,48,48,48,97,48,48,50,32,51,57,48,56,50,99,49,49,
    32,48,48,48,48,48,50,48,52,32,48,53,98,52,48,52,48,50,32,48,56,48,97,99,
    102,52,48,10,50,54,52,48,48,48,48,48,32,48,48,48,48,48,49,48,51,32,48,
    51,48,55,10>>

\* the dump the file header documents for it (lines 12-16)
ExampleDump ==
    <<
      <<48,48,48,48,48,48,32,99,50,32,101,102,32,48,97,32,48,48,32,48,48,32,
      57,49,32,56,56,32,52,51,32,32,101,49,32,51,56,32,97,55,32,50,98,32,48,
      56,32,48,48,32,52,53,32,48,48>>,
      <<48,48,48,48,49,48,32,48,48,32,51,99,32,100,51,32,55,51,32,52,48,32,
      48,48,32,52,48,32,48,54,32,32,53,56,32,97,99,32,48,50,32,48,50,32,48,
      50,32,48,97,32,48,97,32,48,48>>,
      <<48,48,48,48,50,48,32,48,48,32,57,49,32,97,97,32,101,54,32,48,48,32,
      49,54,32,98,52,32,52,54,32,32,55,102,32,56,54,32,48,48,32,48,48,32,48,
      48,32,48,48,32,97,48,32,48,50>>,
      <<48,48,48,48,51,48,32,51,57,32,48,56,32,50,99,32,49,49,32,48,48,32,
      48,48,32,48,50,32,48,52,32,32,48,53,32,98,52,32,48,52,32,48,50,32,48,
      56,32,48,97,32,99,102,32,52,48>>,
      <<48,48,48,48,52,48,32,50,54,32,52,48,32,48,48,32,48,48,32,48,48,32,
      48,48,32,48,49,32,48,51,32,32,48,51,32,48,55>>
    >>

\* the digits of the k-th byte of a generated line
ByteText(k, upper) ==
    LET hc(d) == IF upper /\ d >= 10 THEN 55 + d ELSE HexChar(d)
    IN  <<hc(k % 16), hc((3 * k + 5) % 16)>>

\* what separates the k-th byte from what follows it.  Style 1: one space;
\* style 2: a tab after the first byte, none afterwards; style 3: a space
\* after the first byte, then ": ", a line break or "-" in turn
Separator(style, k) ==
    IF style = 1 THEN <<32>>
    ELSE IF style = 2 THEN (IF k = 1 THEN <<9>> ELSE <<>>)
    ELSE IF k = 1 THEN <<32>>
    ELSE IF k % 3 = 0 THEN <<58, 32>>
    ELSE IF k % 3 = 1 THEN <<10>>
    ELSE <<45>>

RECURSIVE Body(_, _, _, _)
\* the bytes lo..hi of a line of n bytes with what separates them
Body(lo, hi, n, style) ==
    IF lo > hi THEN <<>>
    ELSE IF lo = hi
    THEN ByteText(lo, style = 2)
         \o (IF lo < n THEN Separator(style, lo) ELSE <<>>)
    ELSE LET mid == (lo + hi) \div 2
         IN  Body(lo, mid, n, style) \o Body(mid + 1, hi, n, style)

\* cr carriage returns, n bytes and, with odd = 1, one more digit
MkLine(cr, n, style, odd) ==
    [j \in 1..cr |-> 13] \o Body(1, n, n, style)
    \o (IF odd = 1 THEN Separator(style, n) \o <<HexChar(n % 16)>> ELSE <<>>)

\* carriage return, 'b', space, tab, 'g'
Alphabet == {13, 98, 32, 9, 103}

\* every text of at most MaxShortLen characters of Alphabet
ShortStrings == UNION {[1..n -> Alphabet] : n \in 0..MaxShortLen}

GenLines ==
    {MkLine(cr, n, style, odd) :
        cr \in 0..1, n \in 0..MaxBytes, style \in 1..3, odd \in 0..1}

\* the strings a single call of gen_hexdump is examined on after k full
\* rows; the short ones after MaxStartRows rows
FnInputs(k) ==
    GenLines \cup {ExampleHexStr}
    \cup (IF k = MaxStartRows THEN ShortStrings ELSE {})

\* the lines getline may deliver (no line break inside a line)
FileLines ==
    { <<>>, <<120, 121, 122>>, <<98, 98, 69, 69>>,
      MkLine(0, 2, 1, 0), MkLine(1, 16, 1, 0),
      MkLine(0, 5 * MaxBytes, 2, 1) }

\* the values of -s; <<>> also stands for no -s at all
SArgs == { <<>>, MkLine(0, 2, 1, 0), ExampleHexStr }

(***************************************************************************)
(* The program state.                                                      *)
(***************************************************************************)
VARIABLES
    pc,           \* where main is
    argv_ok,      \* getopt accepts every option of the command line
    out_file,     \* -o: "none" (not given), "ok", "bad" (cannot be created)
    in_file,      \* -i: "none" (not given), "ok", "missing" (cannot be opened)
    mult_pkts,    \* main's flag: one packet per line
    hex_str,      \* main's string: the value of -s, then what read_hex_str adds
    gLinePrefix,  \* the offset counter, a uint32_t
    ofs,          \* the rows written to the output file since the initial
                  \* state
    nlines,       \* lines getline has delivered since the initial state
    \* what follows records the run; the program does not read it
    call,         \* the latest call of gen_hexdump
    rd,           \* the latest line read_hex_gen_dump took from the file
    nfull,        \* full rows written since the counter was last reset
    nflushed,     \* rows written since the counter was last reset
    pending,      \* a line beginning with non-hex content was processed and
                  \* no line has been classified as hex data since
    resetFrom,    \* the counter before the latest such line
    leftBy        \* the counter after the latest non-empty line

vars == <<pc, argv_ok, out_file, in_file, mult_pkts, hex_str, gLinePrefix,
          ofs, nlines, call, rd, nfull, nflushed, pending, resetFrom, leftBy>>

opts == <<argv_ok, out_file, in_file, mult_pkts>>

NoCall == [made |-> FALSE]
NoRead == [made |-> FALSE]

RECURSIVE Texts(_)
\* the text of each row of written
Texts(written) ==
    IF written = <<>> THEN <<>>
    ELSE <<Head(written).text>> \o Texts(Tail(written))

RECURSIVE CountFull(_)
\* how many rows of written are full rows
CountFull(written) ==
    IF written = <<>> THEN 0
    ELSE (IF Head(written).full THEN 1 ELSE 0) + CountFull(Tail(written))

\* after its leading carriage returns the line does not go on with a hex
\* digit: it begins with non-hex content
BeginsNonHex(line) ==
    line # <<>> /\ ~IsXDigit(CharAt(line, SkipCR(line, 0)))

\* the call gen_hexdump(arg, ofs) and the record of it
DoGenHexdump(arg) ==
    LET r == gen_hexdump(arg, gLinePrefix) IN
    /\ gLinePrefix' = r.gLinePrefix
    /\ ofs' = ofs \o Texts(r.written)
    /\ call' = [made |-> TRUE, arg |-> arg, before |-> gLinePrefix,
                ret |-> r.ret, pre |-> r.pre, reads |-> r.reads,
                rows |-> r.written, rows0 |-> Len(ofs),
                full0 |-> IF r.ret THEN nfull ELSE 0,
                flushed0 |-> IF r.ret THEN nflushed ELSE 0,
                pending |-> pending, resetFrom |-> resetFrom,
                afterEmpty |-> rd.made /\ rd.line = <<>>,
                leftBy |-> leftBy]
    /\ nfull' = IF r.ret THEN nfull + CountFull(r.written) ELSE 0
    /\ nflushed' = IF r.ret THEN nflushed + Len(r.written) ELSE 0

\* the program at its start.  out_file, in_file, hex_str and mult_pkts hold
\* what the getopt loop makes of the command line, when getopt accepts it
Init ==
    /\ pc = "getopt"
    /\ argv_ok \in BOOLEAN
    /\ out_file \in {"none", "ok", "bad"}
    /\ in_file \in {"none", "ok", "missing"}
    /\ hex_str \in SArgs
    /\ mult_pkts \in BOOLEAN
    /\ hex_str # <<>> => ~mult_pkts
    /\ gLinePrefix = Zero32
    /\ ofs = <<>>
    /\ nlines = 0
    /\ call = NoCall
    /\ rd = NoRead
    /\ nfull = 0
    /\ nflushed = 0
    /\ pending = FALSE
    /\ resetFrom = Zero32
    /\ leftBy = Zero32

(***************************************************************************)
(* main                                                                    *)
(***************************************************************************)
\* getopt meets an option it rejects: the usage is printed, abort()
GetoptUsage ==
    /\ pc = "getopt"
    /\ ~argv_ok
    /\ pc' = "abort"
    /\ UNCHANGED <<opts, hex_str, gLinePrefix, ofs, nlines, call, rd, nfull,
                   nflushed, pending, resetFrom, leftBy>>

\* the getopt loop ends with every option accepted
GetoptDone ==
    /\ pc = "getopt"
    /\ argv_ok
    /\ pc' = "main"
    /\ UNCHANGED <<opts, hex_str, gLinePrefix, ofs, nlines, call, rd, nfull,
                   nflushed, pending, resetFrom, leftBy>>

\* assert(!out_file.empty())
AssertOutFile ==
    /\ pc = "main"
    /\ out_file = "none"
    /\ pc' = "abort"
    /\ UNCHANGED <<opts, hex_str, gLinePrefix, ofs, nlines, call, rd, nfull,
                   nflushed, pending, resetFrom, leftBy>>

\* if (!ofs.is_open()) return 1
OpenOutFail ==
    /\ pc = "main"
    /\ out_file = "bad"
    /\ pc' = "exit1"
    /\ UNCHANGED <<opts, hex_str, gLinePrefix, ofs, nlines, call, rd, nfull,
                   nflushed, pending, resetFrom, leftBy>>

\* single-packet branch, read_hex_str cannot open the file and returns 0;
\* main goes on to gen_hexdump(hex_str, ofs)
SinglePacketOpenFail ==
    /\ pc = "main"
    /\ out_file = "ok"
    /\ ~mult_pkts /\ in_file = "missing"
    /\ DoGenHexdump(hex_str)
    /\ pc' = "done"
    /\ UNCHANGED <<opts, hex_str, nlines, rd, pending, resetFrom, leftBy>>

\* single-packet branch, read_hex_str opens the file
SinglePacketOpen ==
    /\ pc = "main"
    /\ out_file = "ok"
    /\ ~mult_pkts /\ in_file = "ok"
    /\ pc' = "read_hex_str"
    /\ UNCHANGED <<opts, hex_str, gLinePrefix, ofs, nlines, call, rd, nfull,
                   nflushed, pending, resetFrom, leftBy>>

\* while (getline(ifs, line)) hex_str += (line + '\n')
ReadHexStrLine ==
    /\ pc = "read_hex_str"
    /\ nlines < MaxLines
    /\ \E line \in FileLines : hex_str' = hex_str \o line \o <<10>>
    /\ nlines' = nlines + 1
    /\ UNCHANGED <<pc, opts, gLinePrefix, ofs, call, rd, nfull, nflushed,
                   pending, resetFrom, leftBy>>

\* end of file: read_hex_str returns, main calls gen_hexdump(hex_str, ofs)
ReadHexStrEnd ==
    /\ pc = "read_hex_str"
    /\ DoGenHexdump(hex_str)
    /\ pc' = "done"
    /\ UNCHANGED <<opts, hex_str, nlines, rd, pending, resetFrom, leftBy>>

\* multi-packet branch, read_hex_gen_dump cannot open the file
MultiOpenFail ==
    /\ pc = "main"
    /\ out_file = "ok"
    /\ mult_pkts /\ in_file = "missing"
    /\ pc' = "done"
    /\ UNCHANGED <<opts, hex_str, gLinePrefix, ofs, nlines, call, rd, nfull,
                   nflushed, pending, resetFrom, leftBy>>

\* multi-packet branch, read_hex_gen_dump opens the file
MultiOpen ==
    /\ pc = "main"
    /\ out_file = "ok"
    /\ mult_pkts /\ in_file = "ok"
    /\ pc' = "read_hex_gen_dump"
    /\ UNCHANGED <<opts, hex_str, gLinePrefix, ofs, nlines, call, rd, nfull,
                   nflushed, pending, resetFrom, leftBy>>

\* the empty line given to gen_hexdump like any other
FeedLineAlways(line) == TRUE

\* if (!line.empty())
FeedLine(line) == line # <<>>

\* one iteration of while (getline(ifs, line)) in read_hex_gen_dump
ReadGenLine ==
    /\ pc = "read_hex_gen_dump"
    /\ nlines < MaxLines
    /\ \E line \in FileLines :
        /\ rd' = [made |-> TRUE, line |-> line, fed |-> FeedLine(line),
                  rows0 |-> Len(ofs), prefix0 |-> gLinePrefix]
        /\ IF FeedLine(line)
           THEN DoGenHexdump(line)
           ELSE UNCHANGED <<gLinePrefix, ofs, call, nfull, nflushed>>
        /\ leftBy' = IF line # <<>> THEN gLinePrefix' ELSE leftBy
        /\ IF line = <<>> THEN UNCHANGED <<pending, resetFrom>>
           ELSE IF BeginsNonHex(line)
           THEN pending' = TRUE /\ resetFrom' = gLinePrefix
           ELSE IF preprocess_hex_str(line, gLinePrefix).ret
           THEN pending' = FALSE /\ UNCHANGED resetFrom
           ELSE UNCHANGED <<pending, resetFrom>>
    /\ nlines' = nlines + 1
    /\ UNCHANGED <<pc, opts, hex_str>>

\* end of file: read_hex_gen_dump returns true
ReadGenEnd ==
    /\ pc = "read_hex_gen_dump"
    /\ pc' = "done"
    /\ UNCHANGED <<opts, hex_str, gLinePrefix, ofs, nlines, call, rd, nfull,
                   nflushed, pending, resetFrom, leftBy>>

\* no -i: gen_hexdump(hex_str, ofs) on the value of -s
StringOnly ==
    /\ pc = "main"
    /\ out_file = "ok"
    /\ in_file = "none"
    /\ DoGenHexdump(hex_str)
    /\ pc' = "done"
    /\ UNCHANGED <<opts, hex_str, nlines, rd, pending, resetFrom, leftBy>>

Next ==
    \/ GetoptUsage
    \/ GetoptDone
    \/ AssertOutFile
    \/ OpenOutFail
    \/ SinglePacketOpenFail
    \/ SinglePacketOpen
    \/ ReadHexStrLine
    \/ ReadHexStrEnd
    \/ MultiOpenFail
    \/ MultiOpen
    \/ ReadGenLine
    \/ ReadGenEnd
    \/ StringOnly

Spec == Init /\ [][Next]_vars

(***************************************************************************)
(* States in the middle of a run.  After k full rows without a reset the   *)
(* counter is 16k mod 2^32; the file holds those rows, and ofs what is     *)
(* written from there on.                                                  *)
(***************************************************************************)
\* the counter after k full rows: 16k mod 2^32
CounterAfter(k) == U32((k \div 4096) % Half, (k % 4096) * 16)

\* the numbers of full rows that bring the counter to 2^24 - 16, the last
\* value that six digits hold, and to 2^32 - 16, the last one before the
\* uint32_t wraps
HighStartRows == {256 * 4096 - 1, Half * 4096 - 1}

\* the numbers of full rows a run is taken up at
StartRows == (0..MaxStartRows) \cup HighStartRows

MidRun(k) ==
    /\ gLinePrefix = CounterAfter(k)
    /\ leftBy = CounterAfter(k)
    /\ ofs = <<>>
    /\ nfull = k
    /\ nflushed = k
    /\ nlines = 0
    /\ call = NoCall
    /\ rd = NoRead
    /\ pending = FALSE
    /\ resetFrom = Zero32

\* read_hex_gen_dump in its loop, k full rows written
InitMid ==
    /\ pc = "read_hex_gen_dump"
    /\ argv_ok = TRUE
    /\ out_file = "ok"
    /\ in_file = "ok"
    /\ mult_pkts = TRUE
    /\ hex_str = <<>>
    /\ \E k \in HighStartRows : MidRun(k)

\* the program from its start, or from the middle of a multi-packet run
SpecMid == (Init \/ InitMid) /\ [][Next]_vars

(***************************************************************************)
(* One call of gen_hexdump on any input, after any of the numbers of full  *)
(* rows above.                                                             *)
(***************************************************************************)
InitFn ==
    /\ pc = "call"
    /\ argv_ok = TRUE
    /\ out_file = "ok"
    /\ in_file = "none"
    /\ mult_pkts = FALSE
    /\ \E k \in StartRows :
        /\ MidRun(k)
        /\ hex_str \in FnInputs(k)

CallGenHexdump ==
    /\ pc = "call"
    /\ DoGenHexdump(hex_str)
    /\ pc' = "returned"
    /\ UNCHANGED <<opts, hex_str, nlines, rd, pending, resetFrom, leftBy>>

NextFn == CallGenHexdump

SpecFn == InitFn /\ [][NextFn]_vars

(***************************************************************************)
(* What the properties are stated with.  None of it is part of the         *)
(* program.                                                                *)
(***************************************************************************)
LowerHexChars == <<48, 49, 50, 51, 52, 53, 54, 55, 56, 57,
                   97, 98, 99, 100, 101, 102>>

LowerHexSet == (48..57) \cup (97..102)

HexCharSet == LowerHexSet \cup (65..70)

RECURSIVE NatHex(_)
\* the lowercase hex digits of n without leading zeros; none for 0
NatHex(n) ==
    IF n = 0 THEN <<>>
    ELSE NatHex(n \div 16) \o <<LowerHexChars[(n % 16) + 1]>>

RECURSIVE StripZeros(_)
\* digits without their leading zeros
StripZeros(d) ==
    IF d # <<>> /\ Head(d) = 48 THEN StripZeros(Tail(d)) ELSE d

\* digits zero-padded to at least six
Pad6(d) == [j \in 1..(6 - Len(d)) |-> 48] \o d

\* the digits of the number 16 * n, without leading zeros
Times16(n) == IF n = 0 THEN <<>> ELSE NatHex(n) \o <<48>>

\* the digits of 16 * n mod 2^32, without leading zeros: the last eight
\* digits of 16 * n
Times16Mod32(n) ==
    LET d == Times16(n)
    IN  StripZeros(IF Len(d) > 8 THEN SubSeq(d, Len(d) - 7, Len(d)) ELSE d)

\* the digits of a uint32_t, without leading zeros
U32Digits(v) ==
    LET l == NatHex(v.lo) IN
    IF v.hi = 0 THEN l
    ELSE NatHex(v.hi) \o [j \in 1..(4 - Len(l)) |-> 48] \o l

\* the printed offset of a row: what stands before its first space
OffsetField(text) ==
    LET sp == {p \in 1..Len(text) : text[p] = 32}
        first == CHOOSE p \in sp : \A q \in sp : p <= q
    IN  IF sp = {} THEN text ELSE SubSeq(text, 1, first - 1)

\* the part of a row after the offset and its space
RowBody(text) == SubSeq(text, Len(OffsetField(text)) + 2, Len(text))

\* the number of carriage returns a line begins with
LeadingCRs(line) ==
    CHOOSE n \in 0..Len(line) :
        /\ \A j \in 1..n : line[j] = 13
        /\ n = Len(line) \/ line[n + 1] # 13

\* after its carriage returns the line goes on with
\* hex digit, hex digit, blank, hex digit, hex digit
HexPattern(line) ==
    LET n == LeadingCRs(line) IN
    /\ Len(line) >= n + 5
    /\ line[n + 1] \in HexCharSet
    /\ line[n + 2] \in HexCharSet
    /\ line[n + 3] \in {32, 9}
    /\ line[n + 4] \in HexCharSet
    /\ line[n + 5] \in HexCharSet

\* the hex digit characters of a text, lowercased, in order
LowerHexDigitsOf(text) ==
    LET isHex(c) == c \in HexCharSet
        d == SelectSeq(text, isHex)
    IN  [j \in 1..Len(d) |-> IF d[j] \in 65..70 THEN d[j] + 32 ELSE d[j]]

RECURSIVE RowDigitsAfter6(_)
\* the rows without their first 6 characters and without whitespace, joined
RowDigitsAfter6(texts) ==
    IF texts = <<>> THEN <<>>
    ELSE LET notSpace(c) == c # 32
             t == Head(texts)
         IN  SelectSeq(SubSeq(t, 7, Len(t)), notSpace)
             \o RowDigitsAfter6(Tail(texts))

RECURSIVE RowDigits(_)
\* the rows without their offsets and without whitespace, joined
RowDigits(texts) ==
    IF texts = <<>> THEN <<>>
    ELSE LET notSpace(c) == c # 32
         IN  SelectSeq(RowBody(Head(texts)), notSpace)
             \o RowDigits(Tail(texts))

\* the columns of a row after its offset and space that hold digits: two
\* digits, one space, and one more space between the 8th and the 9th group
DigitColumn(p) == (IF p > 24 THEN p - 1 ELSE p) % 3 # 0

\* the full rows among the first j - 1 rows of the latest call
FullBefore(j) == CountFull(SubSeq(call.rows, 1, j - 1))

InMulti == pc \in {"read_hex_gen_dump", "done"} /\ mult_pkts

(***************************************************************************)
(* C1                                                                      *)
(***************************************************************************)
\* C1: formatting the example packet of the file header, the counter at 0,
\* writes exactly the five rows the header documents.
C1_ExampleReproduced ==
    (call.made /\ call.arg = ExampleHexStr /\ call.before = Zero32)
        => Texts(call.rows) = ExampleDump

(***************************************************************************)
(* C2                                                                      *)
(***************************************************************************)
\* C2 as stated: the offset printed on a row is 16 times the number of rows,
\* full or short, written before it since the counter was last reset.
C2_OffsetCountsAllRows ==
    (call.made /\ call.ret) =>
        \A j \in 1..Len(call.rows) :
            StripZeros(OffsetField(call.rows[j].text))
                = Times16(call.flushed0 + j - 1)

\* C2 amended: the offset printed on a row is, modulo 2^32, 16 times the
\* number of full 16-byte rows written before it since the counter was last
\* reset; a short last row does not count.
C2_OffsetCountsFullRows ==
    (call.made /\ call.ret) =>
        \A j \in 1..Len(call.rows) :
            StripZeros(OffsetField(call.rows[j].text))
                = Times16Mod32(call.full0 + FullBefore(j))

\* a row written after a short row with no reset in between
C2_Witness ==
    /\ call.made /\ call.ret
    /\ call.rows # <<>>
    /\ call.flushed0 > call.full0
    /\ call.full0 > 0

(***************************************************************************)
(* C3                                                                      *)
(***************************************************************************)
\* C3 as stated: the counter starts at 0, is 0 after a line that fails the
\* classifier, and each row begins with exactly six zero-padded lowercase
\* hex digits that are 16 times the number of full rows written since the
\* last reset.
C3_SixDigitOffsets ==
    /\ pc \in {"getopt", "main"} => gLinePrefix = Zero32
    /\ call.made =>
        /\ ~call.ret => gLinePrefix = Zero32
        /\ \A j \in 1..Len(call.rows) :
            LET f == OffsetField(call.rows[j].text) IN
            /\ Len(f) = 6
            /\ \A p \in 1..Len(f) : f[p] \in LowerHexSet
            /\ StripZeros(f) = Times16(call.full0 + FullBefore(j))

\* C3 amended: the counter starts at 0, grows by 16 modulo 2^32 with each
\* full row and only then, is left alone by a short last row and is 0 after
\* a line that fails the classifier; each row begins with the counter in
\* lowercase hex, zero-padded to at least six digits, and a space, and the
\* counter is 16 times the number of full rows written since the last
\* reset, modulo 2^32.
C3_CounterLaw ==
    /\ pc \in {"getopt", "main"} => gLinePrefix = Zero32
    /\ U32Digits(gLinePrefix) = Times16Mod32(nfull)
    /\ call.made =>
        /\ ~call.ret => gLinePrefix = Zero32
        /\ call.ret =>
            /\ U32Digits(call.before) = Times16Mod32(call.full0)
            /\ U32Digits(gLinePrefix)
                   = Times16Mod32(call.full0 + CountFull(call.rows))
        /\ \A j \in 1..Len(call.rows) :
            LET t == call.rows[j].text
                f == OffsetField(t)
            IN  /\ Len(t) > Len(f)
                /\ \A p \in 1..Len(f) : f[p] \in LowerHexSet
                /\ f = Pad6(StripZeros(f))
                /\ f = Pad6(Times16Mod32(call.full0 + FullBefore(j)))

\* a call that found the counter above 0, wrote full rows and a short one
\* and printed an offset of seven digits
C3_Witness ==
    /\ call.made /\ call.ret
    /\ call.before # Zero32
    /\ CountFull(call.rows) >= 1
    /\ ~call.rows[Len(call.rows)].full
    /\ \E j \in 1..Len(call.rows) : Len(OffsetField(call.rows[j].text)) = 7

(***************************************************************************)
(* C4                                                                      *)
(***************************************************************************)
\* C4: in multi-packet mode a line beginning with non-hex content writes
\* nothing, and the first row of the next line classified as hex data has
\* the offset 000000.
C4_NonHexLineResets ==
    /\ (rd.made /\ BeginsNonHex(rd.line)) =>
           (Len(ofs) = rd.rows0 /\ gLinePrefix = Zero32)
    /\ (InMulti /\ call.made /\ call.ret /\ call.pending) =>
           OffsetField(call.rows[1].text) = <<48, 48, 48, 48, 48, 48>>

\* a hex line after a non-hex line that found the counter above 0
C4_Witness ==
    /\ InMulti
    /\ call.made /\ call.ret /\ call.pending
    /\ call.resetFrom # Zero32
    /\ Len(ofs) > Len(call.rows)

(***************************************************************************)
(* C5                                                                      *)
(***************************************************************************)
\* C5 as stated: for every input of gen_hexdump the digits of the rows it
\* writes, their first 6 characters and all whitespace removed, are the hex
\* digits of the input, lowercased, in order.
C5_RoundTripEveryInput ==
    call.made =>
        RowDigitsAfter6(Texts(call.rows)) = LowerHexDigitsOf(call.arg)

\* C5 amended: for every input that preprocess_hex_str classifies as hex
\* data the digits of the rows written, their offsets and all whitespace
\* removed, are the hex digits of the input, lowercased, in order; for any
\* other input nothing is written.
C5_RoundTripHexInput ==
    call.made =>
        /\ call.ret =>
               RowDigits(Texts(call.rows)) = LowerHexDigitsOf(call.arg)
        /\ ~call.ret => call.rows = <<>>

\* an accepted input with uppercase digits and separators, over three rows
C5_Witness ==
    /\ call.made /\ call.ret
    /\ Len(call.rows) >= 3
    /\ \E p \in 1..Len(call.arg) : call.arg[p] \in 65..70
    /\ \E p \in 1..Len(call.arg) : call.arg[p] \notin HexCharSet

(***************************************************************************)
(* C6                                                                      *)
(***************************************************************************)
\* C6: in every row written the two-digit groups are one space apart, the
\* 8th and the 9th two spaces; a row holds at most 16 groups, a full row
\* exactly 16 and nothing after the 16th.
C6_RowLayout ==
    call.made =>
        \A j \in 1..Len(call.rows) :
            LET b == RowBody(call.rows[j].text) IN
            /\ Len(b) <= 48
            /\ \A p \in 1..Len(b) :
                IF DigitColumn(p) THEN b[p] \in HexCharSet ELSE b[p] = 32
            /\ call.rows[j].full => Len(b) = 48

\* a call that wrote a full row and a short row of more than 8 groups
C6_Witness ==
    /\ call.made
    /\ \E j \in 1..Len(call.rows) : call.rows[j].full
    /\ \E j \in 1..Len(call.rows) :
        /\ ~call.rows[j].full
        /\ Len(RowBody(call.rows[j].text)) > 27

(***************************************************************************)
(* C7                                                                      *)
(***************************************************************************)
\* C7: preprocess_hex_str returns true exactly when the line, after its
\* leading carriage returns, goes on with hex digit, hex digit, space or
\* tab, hex digit, hex digit; it then leaves the counter alone; otherwise
\* the counter is 0 afterwards and gen_hexdump writes nothing.
C7_Classifier ==
    call.made =>
        /\ call.ret <=> HexPattern(call.arg)
        /\ call.ret => call.pre = call.before
        /\ ~call.ret =>
            /\ call.pre = Zero32
            /\ gLinePrefix = Zero32
            /\ call.rows = <<>>
            /\ Len(ofs) = call.rows0

\* a rejected line of five characters or more met with the counter above 0
C7_Witness ==
    /\ call.made /\ ~call.ret
    /\ call.before # Zero32
    /\ Len(call.arg) - LeadingCRs(call.arg) >= 5
    /\ call.arg[LeadingCRs(call.arg) + 1] \in HexCharSet

(***************************************************************************)
(* C8                                                                      *)
(***************************************************************************)
\* C8: a line with fewer than 5 characters after its leading carriage
\* returns is classified as non-hex, and no index above the length of the
\* line is read.
C8_ShortLineInBounds ==
    (call.made /\ Len(call.arg) - LeadingCRs(call.arg) < 5) =>
        /\ ~call.ret
        /\ \A r \in call.reads : r >= 0 /\ r <= Len(call.arg)

\* a short line that matches the pattern as far as it goes: the terminator
\* is read
C8_Witness ==
    /\ call.made
    /\ Len(call.arg) - LeadingCRs(call.arg) = 4
    /\ LeadingCRs(call.arg) = 1
    /\ Len(call.arg) \in call.reads

(***************************************************************************)
(* C9                                                                      *)
(***************************************************************************)
\* C9: when the input file cannot be opened no row is written.
C9_NoRowsWithoutInput ==
    (in_file = "missing" /\ out_file = "ok") => ofs = <<>>

(***************************************************************************)
(* C10                                                                     *)
(***************************************************************************)
\* C10: in multi-packet mode an empty line is not given to gen_hexdump, it
\* writes no row and leaves the counter alone; a hex line after an empty
\* line starts at the counter the line before the empty one left.
C10_EmptyLineSkipped ==
    /\ (rd.made /\ rd.line = <<>>) =>
        /\ ~rd.fed
        /\ Len(ofs) = rd.rows0
        /\ gLinePrefix = rd.prefix0
    /\ (InMulti /\ call.made /\ call.ret /\ call.afterEmpty) =>
        OffsetField(call.rows[1].text) = Pad6(U32Digits(call.leftBy))

\* a hex line after an empty line, the counter above 0
C10_Witness ==
    /\ InMulti
    /\ call.made /\ call.ret /\ call.afterEmpty
    /\ call.leftBy # Zero32
====
